---- MODULE Spec2Model ----
(***************************************************************************)
(* The kanban board of b02thomas/kanbanboard as a state machine.           *)
(*                                                                         *)
(* The repository holds several boards.  Each is modelled from its own     *)
(* source and the variable `variant` says which one a behaviour runs:      *)
(*   "ts"   src/unnamed/part_006      App (TypeScript, dnd-kit, auth)      *)
(*   "js"   src/frontend/src/App.js   App (dnd-kit, auth)                  *)
(*   "rbd"  src/unnamed/part_004      App (react-beautiful-dnd, no auth)   *)
(*   "hook" src/frontend/src/hooks/useKanban.js (local-storage board)      *)
(* The first three keep a task array and talk to the REST backend through  *)
(* axios; every awaited call is a request in `inflight` that the backend   *)
(* handles and whose response is delivered in separate steps.  The backend *)
(* itself is not part of the sources; it is modelled from section 6 of the *)
(* specification.                                                          *)
(***************************************************************************)
EXTENDS Integers, Sequences, FiniteSets, TLC

VARIABLES
    variant,    \* which board implementation runs
    mounted,    \* the App's mount effect has run
    loading,    \* App.loading
    user,       \* App.user ("none" for null)
    token,      \* localStorage holds a token and a user
    tasks,      \* App.tasks, the local task array
    modal,      \* part_006: showCreateModal / createModalStatus
    server,     \* the backend's task collection
    nextId,     \* the backend's next task id
    inflight,   \* axios requests awaiting their response, in issue order
    sent,       \* how many requests have been sent so far
    applied,    \* task id -> status of the last mutation response applied
    settled,    \* task id -> status a completed, undisturbed move gave it,
                \* "deleted" once its delete has succeeded
    columns,    \* useKanban: column id -> list of task ids
    filters,    \* searchTerm, priorityFilter, statusFilter of the filter bar
    chatMessages, \* part_006: App.chatMessages
    projects,   \* part_006: App.projects, the ids of the projects listed
    last        \* the last step taken (what happened, to which task)

vars == <<variant, mounted, loading, user, token, tasks, modal, server, nextId,
          inflight, sent, applied, settled, columns, filters, chatMessages, projects, last>>

----------------------------------------------------------------------------
(* Bounds of the model.                                                    *)

\* Task ids the backend can hand out (two tasks exist at start).
MaxTasks == 3
\* Requests that may be awaiting their response at the same time.
MaxInflight == 2
\* Requests a behaviour may send in all.
MaxSends == 3
\* Entries the local-storage board may hold over all its columns.
MaxHookLen == 2
\* Characters a search term may have.
MaxTermLen == 2
\* Messages the chat may hold.
MaxMessages == 2
\* Cards a stored local-storage board may hold when drops are studied.
MaxCards == 3

----------------------------------------------------------------------------
(* Data.                                                                   *)

ColumnIds == {"todo", "inprogress", "testing", "completed"}
ColumnOrder == <<"todo", "inprogress", "testing", "completed">>
HookColumnIds == {"todo", "inprogress", "done"}
TaskIds == 1..MaxTasks
Titles == {"x", "y"}
NewTitles == {"x"}
EditTitles == {"y"}
\* Statuses a patch handed to handleSaveTask may carry (Partial<Task>).
PatchStatuses == {"completed"}
Users == {"u1"}
\* error.response.status: 401, and one status that is not 401.
Unauthorized == 401
ServerError == 500
ErrorCodes == {Unauthorized, ServerError}
DefaultStatus == "todo"

Task(id, status, title) == [id |-> id, status |-> status, title |-> title]

Ids(s) == {s[i].id : i \in DOMAIN s}

\* Array.prototype.find / findIndex on the id: the first match, 0 when absent.
FindIndex(s, id) ==
    LET I == {i \in DOMAIN s : s[i].id = id}
    IN IF I = {} THEN 0 ELSE CHOOSE i \in I : \A j \in I : i <= j

StatusOf(s, id) == IF FindIndex(s, id) = 0 THEN "none" ELSE s[FindIndex(s, id)].status

\* tasks.filter(task => task.status === status)
getTasksByStatus(s, status) ==
    LET Keep(t) == t.status = status IN SelectSeq(s, Keep)

\* How often task id occurs in the list of column c.
Occurrences(s, c, id) ==
    Cardinality({i \in DOMAIN getTasksByStatus(s, c) : getTasksByStatus(s, c)[i].id = id})

RemoveAt(s, i) == [j \in 1..(Len(s) - 1) |-> IF j < i THEN s[j] ELSE s[j + 1]]

NoLast == [op |-> "step", kind |-> "none", id |-> 0, col |-> "none", from |-> "none",
           idx |-> -1, code |-> 0, flag |-> FALSE, seen |-> "none",
           card |-> 0, after |-> FALSE]

\* A drop was handled; flag: the dragged task was found in the task array.
Dropped(id) ==
    [NoLast EXCEPT !.op = "drop", !.kind = "move", !.flag = FindIndex(tasks, id) # 0]

Event(op, kind, id, col, from, idx, code, flag) ==
    [op |-> op, kind |-> kind, id |-> id, col |-> col, from |-> from,
     idx |-> idx, code |-> code, flag |-> flag, seen |-> "none",
     card |-> 0, after |-> FALSE]

----------------------------------------------------------------------------
(* The backend (section 6 of the specification).                           *)

\* GET tasks
ServerGet == server

\* POST tasks: the created task, with a server-assigned id.
ServerPost(r) ==
    Task(nextId, IF r.status = "none" THEN DefaultStatus ELSE r.status, r.title)

\* PUT tasks/{id} with a partial patch.
ServerPut(s, r) ==
    [i \in DOMAIN s |->
        IF s[i].id = r.id
        THEN [s[i] EXCEPT !.status = IF r.status = "none" THEN @ ELSE r.status,
                          !.title = IF r.title = "none" THEN @ ELSE r.title]
        ELSE s[i]]

\* DELETE tasks/{id}
ServerDelete(s, r) ==
    LET Keep(t) == t.id # r.id IN SelectSeq(s, Keep)

\* DELETE projects/{id}: the project goes, the task collection stays as it is
\* (no cascade; a task keeps its reference to the deleted project).
ServerDeleteProject(s, r) == s

----------------------------------------------------------------------------
(* Requests.                                                               *)

\* An axios call: what is sent (kind, id and the body's status and title), what
\* the handler that awaits it captured (snap: the `tasks` of its closure; from:
\* the column the gesture started from; to: the column it asked for; idx: the
\* index it asked for), and whether it ever shared the wire with another
\* request (solo).
Request(kind, id, body, from, to, idx, snap) ==
    [kind |-> kind, id |-> id, status |-> body.status, title |-> body.title,
     from |-> from, to |-> to, idx |-> idx, snap |-> snap, stage |-> "sent",
     data |-> <<>>, solo |-> inflight = <<>>]

NoBody == [status |-> "none", title |-> "none"]

Disturbed(q) == [i \in DOMAIN q |-> [q[i] EXCEPT !.solo = FALSE]]

Send(r) == Append(Disturbed(inflight), r)

CanSend == Len(inflight) < MaxInflight /\ sent < MaxSends

\* The `tasks` a handler's closure holds: the functional updates of part_006
\* (setTasks(prev => ...)) read none.
Closure == IF variant = "ts" THEN <<>> ELSE tasks

BoardShown == mounted /\ ~loading /\ user # "none"

----------------------------------------------------------------------------
(* What a response does to the local task array.                           *)

\* fetchTasks: setTasks(response.data)
fetchTasks(data) == data

\* part_006 updateTaskStatus: setTasks(prev => prev.map(...))
updateTaskStatus(prev, taskId, newStatus) ==
    [i \in DOMAIN prev |->
        IF prev[i].id = taskId THEN [prev[i] EXCEPT !.status = newStatus] ELSE prev[i]]

\* part_006 handleCreateTask: setTasks(prev => [...prev, response.data])
handleCreateTask(prev, data) == prev \o data

\* part_006 handleSaveTask: setTasks(prev => prev.map(... {...task, ...updatedTask}))
\* A field the patch does not carry ("none") keeps the task's value.
handleSaveTask(prev, taskId, updatedTask) ==
    [i \in DOMAIN prev |->
        IF prev[i].id = taskId
        THEN [prev[i] EXCEPT
                 !.status = IF updatedTask.status = "none" THEN @ ELSE updatedTask.status,
                 !.title = IF updatedTask.title = "none" THEN @ ELSE updatedTask.title]
        ELSE prev[i]]

\* C14 mutant: a handleDeleteTask that leaves the task array as it is.
handleDeleteTaskKeepsTask(prev, taskId) == prev

\* part_006 handleDeleteTask: setTasks(prev => prev.filter(task => task.id !== taskId))
handleDeleteTask(prev, taskId) ==
    LET Keep(t) == t.id # taskId IN SelectSeq(prev, Keep)

\* App.js / part_004 handleAddTask: setTasks([...tasks, response.data]), with the
\* `tasks` of the render in which the handler was created.
handleAddTask(snap, data) == snap \o data

\* App.js / part_004 handleDragEnd: updatedTask = {...activeTask, status}, then
\* setTasks(tasks.map(task => task.id === activeTask.id ? updatedTask : task)),
\* again with the `tasks` of the handler's render.
handleDragEnd(snap, taskId, targetColumn) ==
    LET updatedTask == [snap[FindIndex(snap, taskId)] EXCEPT !.status = targetColumn]
    IN [i \in DOMAIN snap |-> IF snap[i].id = taskId THEN updatedTask ELSE snap[i]]

\* part_006 handleDeleteProject:
\* setProjects(prev => prev.filter(project => project.id !== projectId))
handleDeleteProject(prev, projectId) ==
    LET Keep(project) == project # projectId IN SelectSeq(prev, Keep)

\* The project list once the successful response of request r is handled.
ProjectsAfter(prev, r) ==
    IF r.kind = "deleteProject" THEN handleDeleteProject(prev, r.id) ELSE prev

\* C27 mutant: a handleDeleteProject that also drops the tasks of the project.
OnSuccessCascading(cur, r) ==
    CASE r.kind = "fetch"  -> fetchTasks(r.data)
      [] r.kind = "move"   -> IF variant = "ts" THEN updateTaskStatus(cur, r.id, r.to)
                              ELSE handleDragEnd(r.snap, r.id, r.to)
      [] r.kind = "create" -> IF variant = "ts" THEN handleCreateTask(cur, r.data)
                              ELSE handleAddTask(r.snap, r.data)
      [] r.kind = "edit"   -> handleSaveTask(cur, r.id,
                                             [status |-> r.status, title |-> r.title])
      [] r.kind = "delete" -> handleDeleteTask(cur, r.id)
      [] r.kind = "deleteProject" ->
            LET Keep(t) == t.project # r.id IN SelectSeq(cur, Keep)

\* The task array once the successful response of request r is handled.
OnSuccess(cur, r) ==
    CASE r.kind = "fetch"  -> fetchTasks(r.data)
      [] r.kind = "move"   -> IF variant = "ts" THEN updateTaskStatus(cur, r.id, r.to)
                              ELSE handleDragEnd(r.snap, r.id, r.to)
      [] r.kind = "create" -> IF variant = "ts" THEN handleCreateTask(cur, r.data)
                              ELSE handleAddTask(r.snap, r.data)
      [] r.kind = "edit"   -> handleSaveTask(cur, r.id,
                                             [status |-> r.status, title |-> r.title])
      [] r.kind = "delete" -> handleDeleteTask(cur, r.id)
      [] r.kind = "deleteProject" -> cur

\* What the caller of the handler awaiting r gets back from it ("resolved" or
\* "rejected").  Every handler wraps its awaited call in try/catch and every
\* catch block returns normally (console.error, for some a logout), none
\* rethrows: the promise resolves whether the call succeeded or failed, so
\* DroppableColumn.handleAddTask's `await onAddTask(...)` goes on to
\* setShowForm(false) and its own catch block never runs.
CallerSees(r, failed) == "resolved"

\* Whether the catch block of the handler awaiting r calls handleLogout:
\* part_006 does for fetchTasks, updateTaskStatus and handleCreateTask, App.js
\* for fetchTasks only, part_004 never.
CallsLogout(r, code) ==
    /\ code = Unauthorized
    /\ \/ variant = "ts" /\ r.kind \in {"fetch", "move", "create"}
       \/ variant = "js" /\ r.kind = "fetch"

\* C2 mutant: a handler that had applied the move before its await and does
\* not undo it when the call fails.
OnFailureWithoutRollback(cur, r, code) ==
    IF CallsLogout(r, code) THEN <<>>
    ELSE IF r.kind = "move" THEN updateTaskStatus(cur, r.id, r.to) ELSE cur

\* C13 mutant: a fetchTasks whose catch block empties the board.
OnFailureClearsOnLoad(cur, r, code) ==
    IF CallsLogout(r, code) \/ r.kind = "fetch" THEN <<>> ELSE cur

\* C15 mutant: a handler that had removed the task before its await and does
\* not put it back when the call fails.
OnFailureLosesDeleted(cur, r, code) ==
    IF CallsLogout(r, code) THEN <<>>
    ELSE IF r.kind = "delete" THEN handleDeleteTask(cur, r.id) ELSE cur

\* C16 mutant: a handler that had merged the patch before its await and does
\* not restore the task when the call fails.
OnFailureKeepsEdit(cur, r, code) ==
    IF CallsLogout(r, code) THEN <<>>
    ELSE IF r.kind = "edit"
         THEN handleSaveTask(cur, r.id, [status |-> r.status, title |-> r.title])
         ELSE cur

\* The task array once the failure of request r is handled: no handler applies
\* anything before its await, so there is nothing to undo; handleLogout
\* empties the array.
OnFailure(cur, r, code) == IF CallsLogout(r, code) THEN <<>> ELSE cur

----------------------------------------------------------------------------
(* The filter bar.  A string is a sequence of characters here, so that      *)
(* toLowerCase and includes are computed.                                   *)

\* useState(''), useState('all'), useState('all')
NoFilters == [searchTerm |-> <<>>, priorityFilter |-> "all", statusFilter |-> "all"]

FilterChars == {"a", "A", "b"}

\* String.prototype.toLowerCase
LowerChar(c) == IF c = "A" THEN "a" ELSE c
toLowerCase(str) == [i \in DOMAIN str |-> LowerChar(str[i])]

\* C18 mutant: an includes that finds the empty string nowhere.
includesNonEmpty(str, term) ==
    /\ term # <<>>
    /\ \E k \in 0..(Len(str) - Len(term)) : SubSeq(str, k + 1, k + Len(term)) = term

\* String.prototype.includes
includes(str, term) ==
    \E k \in 0..(Len(str) - Len(term)) : SubSeq(str, k + 1, k + Len(term)) = term

\* A task without description (task.description is undefined).
NoDescription == <<"undefined">>

\* C20 mutant: a search that looks at the title only.
matchesSearchTitleOnly(task, searchTerm) ==
    includes(toLowerCase(task.title), toLowerCase(searchTerm))

\* part_006 filteredTasks' matchesSearch; task.description?. is undefined,
\* hence false, for a task without description.
matchesSearch(task, searchTerm) ==
    \/ includes(toLowerCase(task.title), toLowerCase(searchTerm))
    \/ /\ task.description # NoDescription
       /\ includes(toLowerCase(task.description), toLowerCase(searchTerm))
    \/ \E i \in DOMAIN task.tags :
          includes(toLowerCase(task.tags[i]), toLowerCase(searchTerm))

matchesPriority(task, priorityFilter) ==
    priorityFilter = "all" \/ task.priority = priorityFilter

matchesStatus(task, statusFilter) ==
    statusFilter = "all" \/ task.status = statusFilter

\* part_006 filteredTasks: tasks.filter(...)
filteredTasks(ts, f) ==
    LET Keep(task) == /\ matchesSearch(task, f.searchTerm)
                      /\ matchesPriority(task, f.priorityFilter)
                      /\ matchesStatus(task, f.statusFilter)
    IN SelectSeq(ts, Keep)

\* part_006 columns[c].tasks: filteredTasks.filter(task => task.status === c)
ColumnTasks(ts, f, c) == getTasksByStatus(filteredTasks(ts, f), c)

\* KanbanBoard filteredColumns: each column's tasks filtered by content.
filteredColumns(cols, searchTerm) ==
    [c \in DOMAIN cols |->
        LET Keep(task) == includes(toLowerCase(task.content), toLowerCase(searchTerm))
        IN SelectSeq(cols[c], Keep)]

----------------------------------------------------------------------------
(* History kept for the properties.                                        *)

NoStatus == [id \in TaskIds |-> "none"]

\* The status of each task as the last applied mutation response left it;
\* a load or a logout replaces the whole board and forgets them.
Applied(r, after) ==
    CASE r.kind = "fetch"  -> NoStatus
      [] r.kind = "move"   -> IF r.id \in Ids(after)
                              THEN [applied EXCEPT ![r.id] = r.to] ELSE applied
      [] r.kind = "create" -> [applied EXCEPT ![r.data[1].id] = r.data[1].status]
      [] r.kind = "edit"   -> IF r.status # "none" /\ r.id \in Ids(after)
                              THEN [applied EXCEPT ![r.id] = r.status] ELSE applied
      [] r.kind = "delete" -> [applied EXCEPT ![r.id] = "none"]
      [] r.kind = "deleteProject" -> applied

\* A request about task id is being sent: its status is no longer settled
\* (a task whose delete has succeeded stays deleted).
Touch(id) == IF settled[id] = "deleted" THEN settled ELSE [settled EXCEPT ![id] = "none"]

----------------------------------------------------------------------------
(* Start-up and session.                                                   *)

InitialBoard == <<Task(1, "todo", "x"), Task(2, "inprogress", "x")>>

FetchRequest == Request("fetch", 0, NoBody, "none", "none", -1, <<>>)

Init ==
    /\ variant \in {"ts", "js", "rbd", "hook"}
    /\ mounted = (variant = "hook")
    /\ loading = (variant # "hook")
    /\ user = (IF variant = "rbd" THEN "anon" ELSE "none")
    /\ token \in (IF variant \in {"ts", "js"} THEN BOOLEAN ELSE {FALSE})
    /\ tasks = <<>>
    /\ modal = [open |-> FALSE, status |-> "todo"]
    /\ server = (IF variant = "hook" THEN <<>> ELSE InitialBoard)
    /\ nextId = (IF variant = "hook" THEN 1 ELSE Len(InitialBoard) + 1)
    /\ inflight = <<>>
    /\ sent = 0
    /\ applied = NoStatus
    /\ settled = NoStatus
    /\ columns = [c \in HookColumnIds |-> <<>>]
    /\ filters = NoFilters
    /\ chatMessages = <<>>
    /\ projects = <<>>
    /\ last = NoLast

\* The mount effect.  part_006: with a stored session setUser and fetchTasks,
\* and setLoading(false) in every case.  App.js: with a stored session setUser,
\* whose effect calls fetchTasks (loading stays true until it returns),
\* otherwise setLoading(false).  part_004: fetchTasks.
Mount ==
    /\ variant \in {"ts", "js", "rbd"}
    /\ ~mounted
    /\ mounted' = TRUE
    /\ loading' = (IF variant = "ts" THEN FALSE
                   ELSE IF variant = "js" THEN token ELSE TRUE)
    /\ user' = (IF variant = "rbd" THEN user ELSE IF token THEN "u1" ELSE "none")
    /\ inflight' = (IF variant = "rbd" \/ token THEN Send(FetchRequest) ELSE inflight)
    /\ sent' = (IF variant = "rbd" \/ token THEN sent + 1 ELSE sent)
    /\ last' = NoLast
    /\ UNCHANGED <<projects, chatMessages, filters, variant, token, tasks, modal, server, nextId, applied, settled, columns>>

\* LoginForm.handleSubmit stores the token and calls handleLogin: setUser, then
\* fetchTasks (part_006 directly, App.js through the effect on user).
handleLogin(u) ==
    /\ variant \in {"ts", "js"}
    /\ mounted /\ ~loading /\ user = "none"
    /\ CanSend
    /\ token' = TRUE
    /\ user' = u
    /\ inflight' = Send(FetchRequest)
    /\ sent' = sent + 1
    /\ last' = NoLast
    /\ UNCHANGED <<projects, chatMessages, filters, variant, mounted, loading, tasks, modal, server, nextId, applied,
                   settled, columns>>

\* handleLogout, from the header's button.
handleLogout ==
    /\ variant \in {"ts", "js"}
    /\ BoardShown /\ ~modal.open
    /\ token' = FALSE
    /\ user' = "none"
    /\ tasks' = <<>>
    /\ applied' = NoStatus
    /\ projects' = <<>>
    /\ inflight' = Disturbed(inflight)
    /\ last' = NoLast
    /\ UNCHANGED sent
    /\ UNCHANGED <<chatMessages, filters, variant, mounted, loading, modal, server, nextId, settled, columns>>

----------------------------------------------------------------------------
(* Drag and drop on the server-backed boards.                              *)

\* C3 mutant: a PUT whose body leaves the new status out.
MovePayloadWithoutStatus(newStatus) == [status |-> "none", title |-> "none"]

\* The body of the PUT a move sends: { status: newStatus }, nothing else.
MovePayload(newStatus) == [status |-> newStatus, title |-> "none"]

\* What dnd-kit reports as `over`: nothing, a column, or a task card.
NoOver == [col |-> "none", id |-> 0]
Overs == {[col |-> c, id |-> 0] : c \in ColumnIds \cup {"none"}}
         \cup {[col |-> "none", id |-> i] : i \in TaskIds}

\* App.js registers no droppable for a column: DroppableColumn only wraps its
\* cards in a SortableContext, and the sole droppables are the cards
\* (SortableTask's useSortable({ id: task.id })).  `over` is nothing or a card.
OversJs == {NoOver} \cup {[col |-> "none", id |-> i] : i \in TaskIds}

\* The 0-based place of task id in the list of its column, -1 when absent.
PlaceInColumn(s, id) ==
    IF FindIndex(s, id) = 0 THEN -1
    ELSE Cardinality({j \in 1..(FindIndex(s, id) - 1) : s[j].status = StatusOf(s, id)})

\* part_006 handleDragEnd: a drop on a column calls updateTaskStatus, which
\* sends the PUT; a drop on a card or outside does nothing.
TsSendsMove(active, over) ==
    /\ over # NoOver
    /\ FindIndex(tasks, active) # 0
    /\ over.col \in ColumnIds

DragEndTs(active, over) ==
    /\ variant = "ts"
    /\ BoardShown /\ ~modal.open
    /\ TsSendsMove(active, over) => CanSend
    /\ inflight' = (IF TsSendsMove(active, over)
                    THEN Send(Request("move", active, MovePayload(over.col),
                                      StatusOf(tasks, active), over.col, -1, Closure))
                    ELSE inflight)
    /\ settled' = (IF TsSendsMove(active, over) THEN Touch(active) ELSE settled)
    /\ sent' = (IF TsSendsMove(active, over) THEN sent + 1 ELSE sent)
    /\ last' = Dropped(active)
    /\ UNCHANGED <<projects, chatMessages, filters, variant, mounted, loading, user, token, tasks, modal, server, nextId,
                   applied, columns>>

\* App.js handleDragEnd: the target column is the column dropped on, or the
\* status of the card dropped on; the handler reads no index from the event.
targetColumn(over) ==
    IF over.col \in ColumnIds THEN over.col
    ELSE IF over.id # 0 THEN StatusOf(tasks, over.id) ELSE "none"

JsSendsMove(active, over) ==
    /\ over # NoOver
    /\ FindIndex(tasks, active) # 0
    /\ targetColumn(over) # "none"
    /\ StatusOf(tasks, active) # targetColumn(over)

DragEndJs(active, over) ==
    /\ variant = "js"
    /\ BoardShown
    /\ JsSendsMove(active, over) => CanSend
    /\ inflight' = (IF JsSendsMove(active, over)
                    THEN Send(Request("move", active, MovePayload(targetColumn(over)),
                                      StatusOf(tasks, active), targetColumn(over),
                                      -1, Closure))
                    ELSE inflight)
    /\ settled' = (IF JsSendsMove(active, over) THEN Touch(active) ELSE settled)
    /\ sent' = (IF JsSendsMove(active, over) THEN sent + 1 ELSE sent)
    /\ last' = Dropped(active)
    /\ UNCHANGED <<projects, chatMessages, filters, variant, mounted, loading, user, token, tasks, modal, server, nextId,
                   applied, columns>>

\* What react-beautiful-dnd reports as `destination`: nothing, or a column and
\* an index into its list (the dragged card not counted in its own column).
NoDestination == [col |-> "none", idx |-> -1]
Destinations(id) ==
    {NoDestination} \cup
    {d \in [col : ColumnIds, idx : 0..MaxTasks] :
        d.idx <= Len(getTasksByStatus(tasks, d.col))
                 - (IF d.col = StatusOf(tasks, id) THEN 1 ELSE 0)}

\* part_004 handleDragEnd: nothing without a destination or when dropped where
\* it was picked up; otherwise the PUT of destination.droppableId.
RbdSendsMove(id, destination) ==
    /\ destination # NoDestination
    /\ ~(destination.col = StatusOf(tasks, id)
         /\ destination.idx = PlaceInColumn(tasks, id))
    /\ FindIndex(tasks, id) # 0

DragEndRbd(id, destination) ==
    /\ variant = "rbd"
    /\ BoardShown
    /\ RbdSendsMove(id, destination) => CanSend
    /\ inflight' = (IF RbdSendsMove(id, destination)
                    THEN Send(Request("move", id, MovePayload(destination.col),
                                      StatusOf(tasks, id), destination.col,
                                      destination.idx, Closure))
                    ELSE inflight)
    /\ settled' = (IF RbdSendsMove(id, destination) THEN Touch(id) ELSE settled)
    /\ sent' = (IF RbdSendsMove(id, destination) THEN sent + 1 ELSE sent)
    /\ last' = Dropped(id)
    /\ UNCHANGED <<projects, chatMessages, filters, variant, mounted, loading, user, token, tasks, modal, server, nextId,
                   applied, columns>>

----------------------------------------------------------------------------
(* Creating, editing and deleting on the server-backed boards.             *)

\* part_006 handleAddTask: remember the column and open the create modal.
handleAddTaskTs(columnId) ==
    /\ variant = "ts"
    /\ BoardShown /\ ~modal.open
    /\ modal' = [open |-> TRUE, status |-> columnId]
    /\ last' = NoLast
    /\ UNCHANGED sent
    /\ UNCHANGED <<projects, chatMessages, filters, variant, mounted, loading, user, token, tasks, server, nextId,
                   inflight, applied, settled, columns>>

\* The body part_006 handleCreateTask posts: title, description, priority,
\* tags, dueStatus, project, project_color, category, assigned_to, deadline.
\* newTaskData.status (the modal's defaultStatus) is not among them.
CreatePayloadTs(newTaskData) == [status |-> "none", title |-> newTaskData.title]

\* TaskCreateModal.handleSubmit: onSave({...formData, status: defaultStatus}),
\* that is handleCreateTask, then onClose.
SubmitCreateTs(title) ==
    /\ variant = "ts"
    /\ mounted /\ ~loading /\ user # "none" /\ modal.open
    /\ CanSend
    /\ LET newTaskData == [status |-> modal.status, title |-> title]
           body == CreatePayloadTs(newTaskData)
       IN inflight' = Send(Request("create", 0, body, modal.status, modal.status,
                                   -1, Closure))
    /\ modal' = [modal EXCEPT !.open = FALSE]
    /\ sent' = sent + 1
    /\ last' = NoLast
    /\ UNCHANGED <<projects, chatMessages, filters, variant, mounted, loading, user, token, tasks, server, nextId,
                   applied, settled, columns>>

\* TaskCreateModal's cancel button: onClose.
CloseCreateTs ==
    /\ variant = "ts"
    /\ mounted /\ ~loading /\ user # "none" /\ modal.open
    /\ modal' = [modal EXCEPT !.open = FALSE]
    /\ last' = NoLast
    /\ UNCHANGED <<projects, chatMessages, filters, variant, mounted, loading, user, token, tasks, server, nextId,
                   inflight, sent, applied, settled, columns>>

\* The body App.js / part_004 post: DroppableColumn.handleAddTask (Column in
\* part_004) passes {...taskData, status: column.id} to App.handleAddTask,
\* which posts it as it is.
CreatePayloadJs(columnId, title) == [status |-> columnId, title |-> title]

AddTaskJs(columnId, title) ==
    /\ variant \in {"js", "rbd"}
    /\ BoardShown
    /\ CanSend
    /\ LET body == CreatePayloadJs(columnId, title)
       IN inflight' = Send(Request("create", 0, body, columnId, columnId,
                                   -1, Closure))
    /\ sent' = sent + 1
    /\ last' = NoLast
    /\ UNCHANGED <<projects, chatMessages, filters, variant, mounted, loading, user, token, tasks, modal, server, nextId,
                   applied, settled, columns>>

\* The patches handleSaveTask(taskId, updatedTask: Partial<Task>) can be handed:
\* TaskEditModal.handleSubmit passes the form's fields (title, description,
\* priority, tags, dueStatus, assignee), no status; the parameter's type also
\* admits a patch that carries a status.
ModalPatches == {[status |-> "none", title |-> t] : t \in EditTitles}
EditPatches == ModalPatches \cup {[status |-> st, title |-> "none"] : st \in PatchStatuses}

\* The body of handleSaveTask's PUT: updatedTask as it was handed in.
EditPayload(updatedTask) == updatedTask

SaveTask(taskId, updatedTask) ==
    /\ variant = "ts"
    /\ BoardShown /\ ~modal.open
    /\ taskId \in Ids(tasks)
    /\ CanSend
    /\ inflight' = Send(Request("edit", taskId, EditPayload(updatedTask),
                                StatusOf(tasks, taskId), StatusOf(tasks, taskId),
                                -1, Closure))
    /\ settled' = Touch(taskId)
    /\ sent' = sent + 1
    /\ last' = NoLast
    /\ UNCHANGED <<projects, chatMessages, filters, variant, mounted, loading, user, token, tasks, modal, server, nextId,
                   applied, columns>>

\* part_006 TaskEditModal.handleDelete -> handleDeleteTask(task.id).
DeleteTask(taskId) ==
    /\ variant = "ts"
    /\ BoardShown /\ ~modal.open
    /\ taskId \in Ids(tasks)
    /\ CanSend
    /\ inflight' = Send(Request("delete", taskId, NoBody,
                                StatusOf(tasks, taskId), "none", -1, Closure))
    /\ settled' = Touch(taskId)
    /\ sent' = sent + 1
    /\ last' = NoLast
    /\ UNCHANGED <<projects, chatMessages, filters, variant, mounted, loading, user, token, tasks, modal, server, nextId,
                   applied, columns>>

----------------------------------------------------------------------------
(* The backend handles a request; the response reaches the handler.        *)

\* Whether the backend can answer request r with success: a PUT or DELETE of
\* an id it does not hold is answered with an error.
Servable(r) ==
    CASE r.kind = "fetch"  -> TRUE
      [] r.kind = "create" -> nextId <= MaxTasks
      [] r.kind = "deleteProject" -> TRUE
      [] OTHER             -> r.id \in Ids(server)

ServerAfter(r) ==
    CASE r.kind = "fetch"  -> server
      [] r.kind = "create" -> Append(server, ServerPost(r))
      [] r.kind = "delete" -> ServerDelete(server, r)
      [] r.kind = "deleteProject" -> ServerDeleteProject(server, r)
      [] OTHER             -> ServerPut(server, r)

ResponseData(r) ==
    CASE r.kind = "fetch"  -> ServerGet
      [] r.kind = "create" -> <<ServerPost(r)>>
      [] OTHER             -> <<>>

ServerHandle(i) ==
    /\ i \in DOMAIN inflight
    /\ inflight[i].stage = "sent"
    /\ Servable(inflight[i])
    /\ server' = ServerAfter(inflight[i])
    /\ nextId' = (IF inflight[i].kind = "create" THEN nextId + 1 ELSE nextId)
    /\ inflight' = [inflight EXCEPT ![i].stage = "ok", ![i].data = ResponseData(inflight[i])]
    /\ last' = NoLast
    /\ UNCHANGED <<projects, chatMessages, filters, variant, mounted, loading, user, token, tasks, modal, sent, applied,
                   settled, columns>>

\* The id of the task request r is about (the created task's for a POST).
Subject(r) == IF r.kind = "create" /\ r.data # <<>> THEN r.data[1].id ELSE r.id

\* C30 mutant: a fetchTasks without its finally block.
LoadingAfterWithoutFinally(r) == loading

\* fetchTasks' finally block: App.js and part_004 setLoading(false) there.
LoadingAfter(r) ==
    IF r.kind = "fetch" /\ variant \in {"js", "rbd"} THEN FALSE ELSE loading

\* The awaited call returns: the rest of the handler's try block runs.
DeliverOk(i) ==
    /\ i \in DOMAIN inflight
    /\ inflight[i].stage = "ok"
    /\ LET r == inflight[i]
       IN /\ tasks' = OnSuccess(tasks, r)
          /\ loading' = LoadingAfter(r)
          /\ applied' = Applied(r, OnSuccess(tasks, r))
          /\ settled' = (IF r.kind = "move" /\ r.solo /\ r.from # r.to
                         THEN [settled EXCEPT ![r.id] = r.to]
                         ELSE IF r.kind = "delete"
                         THEN [settled EXCEPT ![r.id] = "deleted"] ELSE settled)
          /\ last' = [Event("ok", r.kind, Subject(r), r.to, r.from, r.idx, 0, r.solo)
                         EXCEPT !.seen = CallerSees(r, FALSE)]
    /\ projects' = ProjectsAfter(projects, inflight[i])
    /\ inflight' = RemoveAt(inflight, i)
    /\ UNCHANGED <<chatMessages, filters, variant, mounted, user, token, modal, server, nextId, sent, columns>>

\* The awaited call throws (no response, or an error status): the handler's
\* catch block runs.
DeliverErr(i, code) ==
    /\ i \in DOMAIN inflight
    /\ inflight[i].stage = "sent"
    /\ LET r == inflight[i]
       IN /\ tasks' = OnFailure(tasks, r, code)
          /\ loading' = LoadingAfter(r)
          /\ token' = (IF CallsLogout(r, code) THEN FALSE ELSE token)
          /\ user' = (IF CallsLogout(r, code) THEN "none" ELSE user)
          /\ applied' = (IF CallsLogout(r, code) THEN NoStatus ELSE applied)
          /\ inflight' = (IF CallsLogout(r, code) THEN Disturbed(RemoveAt(inflight, i))
                          ELSE RemoveAt(inflight, i))
          /\ last' = [Event("err", r.kind, r.id, r.to, r.from, r.idx, code, r.solo)
                         EXCEPT !.seen = CallerSees(r, TRUE)]
          /\ projects' = (IF CallsLogout(r, code) THEN <<>> ELSE projects)
    /\ UNCHANGED <<chatMessages, filters, variant, mounted, modal, server, nextId, sent, settled, columns>>

----------------------------------------------------------------------------
(* The local-storage board (useKanban).  A task is its id.                 *)

Max(a, b) == IF a > b THEN a ELSE b
Min(a, b) == IF a < b THEN a ELSE b

\* Array.prototype.splice's start: counted from the end when negative, and
\* kept within [0, length].
SpliceStart(len, start) == IF start < 0 THEN Max(len + start, 0) ELSE Min(start, len)

\* list.splice(start, 1)
SpliceOut(list, start) ==
    LET k == SpliceStart(Len(list), start)
    IN IF k < Len(list) THEN RemoveAt(list, k + 1) ELSE list

\* list.splice(start, 0, item)
SpliceIn(list, start, item) ==
    LET k == SpliceStart(Len(list), start)
    IN SubSeq(list, 1, k) \o <<item>> \o SubSeq(list, k + 1, Len(list))

\* list.findIndex(t => t.id === id): 0-based, -1 when absent.
findIndex(list, id) ==
    LET I == {i \in DOMAIN list : list[i] = id}
    IN IF I = {} THEN -1 ELSE (CHOOSE i \in I : \A j \in I : i <= j) - 1

HookLen(cols) == Len(cols["todo"]) + Len(cols["inprogress"]) + Len(cols["done"])

\* C28 mutant: a moveTask that inserts the task and leaves the source list as
\* it is.
moveTaskKeepingSource(prev, draggedTask, sourceColumnId, destColumnId, destIndex) ==
    [c \in HookColumnIds |->
        IF c = destColumnId THEN SpliceIn(prev[destColumnId], destIndex, draggedTask)
        ELSE prev[c]]

\* useKanban.moveTask's state update.
moveTask(prev, draggedTask, sourceColumnId, destColumnId, destIndex) ==
    LET taskIndex == findIndex(prev[sourceColumnId], draggedTask)
        sourceTasks == SpliceOut(prev[sourceColumnId], taskIndex)
        destTasks == SpliceIn(IF sourceColumnId = destColumnId THEN sourceTasks
                              ELSE prev[destColumnId], destIndex, draggedTask)
    IN [c \in HookColumnIds |->
           IF c = destColumnId THEN destTasks
           ELSE IF c = sourceColumnId THEN sourceTasks ELSE prev[c]]

\* useKanban.addTask: a task with a fresh id at the end of the column.
HookAddTask(columnId) ==
    /\ variant = "hook"
    /\ nextId <= MaxHookLen
    /\ HookLen(columns) < MaxHookLen
    /\ columns' = [columns EXCEPT ![columnId] = Append(@, nextId)]
    /\ nextId' = nextId + 1
    /\ last' = Event("hookAdd", "create", nextId, columnId, columnId, -1, 0, TRUE)
    /\ UNCHANGED <<projects, chatMessages, filters, variant, mounted, loading, user, token, tasks, modal, server,
                   inflight, sent, applied, settled>>

\* useKanban.deleteTask
HookDeleteTask(columnId, taskId) ==
    /\ variant = "hook"
    /\ columns' = [columns EXCEPT ![columnId] =
                      SelectSeq(@, LAMBDA t : t # taskId)]
    /\ last' = Event("hookDelete", "delete", taskId, columnId, columnId, -1, 0,
                     findIndex(columns[columnId], taskId) # -1)
    /\ UNCHANGED <<projects, chatMessages, filters, variant, mounted, loading, user, token, tasks, modal, server, nextId,
                   inflight, sent, applied, settled>>

\* useKanban.moveTask, for any arguments a caller can pass.
HookMoveTask(draggedTask, sourceColumnId, destColumnId, destIndex) ==
    /\ variant = "hook"
    /\ HookLen(moveTask(columns, draggedTask, sourceColumnId, destColumnId, destIndex))
          <= MaxHookLen
    /\ columns' = moveTask(columns, draggedTask, sourceColumnId, destColumnId, destIndex)
    /\ last' = Event("hookMove", "move", draggedTask, destColumnId, sourceColumnId,
                     destIndex, 0, findIndex(columns[sourceColumnId], draggedTask) # -1)
    /\ UNCHANGED <<projects, chatMessages, filters, variant, mounted, loading, user, token, tasks, modal, server, nextId,
                   inflight, sent, applied, settled>>

\* The card a drop lands on: none (the column's free area), or the card whose
\* data-id is the given id.
NoCard == 0

\* KanbanBoard.handleDrop's destIndex: 0 without a card; otherwise the index of
\* the card in the destination column's list (-1 when findIndex does not find
\* it), plus one for a drop on the card's lower half.
destIndex(cols, destColumnId, card, isAfter) ==
    IF card = NoCard THEN 0
    ELSE LET droppedOnTaskIndex == findIndex(cols[destColumnId], card)
         IN IF isAfter THEN droppedOnTaskIndex + 1 ELSE droppedOnTaskIndex

\* KanbanBoard.handleDrop, after handleDragStart on a card of sourceColumnId:
\* moveTask(draggedTask, sourceColumnId, destColumnId, destIndex).
handleDrop(draggedTask, sourceColumnId, destColumnId, card, isAfter) ==
    /\ variant = "hook"
    /\ findIndex(columns[sourceColumnId], draggedTask) # -1
    /\ columns' = moveTask(columns, draggedTask, sourceColumnId, destColumnId,
                           destIndex(columns, destColumnId, card, isAfter))
    /\ last' = [Event("hookDrop", "move", draggedTask, destColumnId, sourceColumnId,
                      destIndex(columns, destColumnId, card, isAfter), 0, TRUE)
                    EXCEPT !.card = card, !.after = isAfter]
    /\ UNCHANGED <<projects, chatMessages, filters, variant, mounted, loading, user, token, tasks, modal,
                   server, nextId, inflight, sent, applied, settled>>

\* KanbanBoard.handleTouchEnd, after handleTouchStart on a card of
\* sourceColumnId and a touch move over activeColumn:
\* moveTask(draggedTask, sourceColumnId, activeColumn, 0).
handleTouchEnd(draggedTask, sourceColumnId, activeColumn) ==
    /\ variant = "hook"
    /\ findIndex(columns[sourceColumnId], draggedTask) # -1
    /\ columns' = moveTask(columns, draggedTask, sourceColumnId, activeColumn, 0)
    /\ last' = Event("hookTouch", "move", draggedTask, activeColumn, sourceColumnId,
                     0, 0, TRUE)
    /\ UNCHANGED <<projects, chatMessages, filters, variant, mounted, loading, user, token, tasks, modal,
                   server, nextId, inflight, sent, applied, settled>>

----------------------------------------------------------------------------

Next ==
    \/ Mount
    \/ \E u \in Users : handleLogin(u)
    \/ handleLogout
    \/ \E a \in TaskIds, o \in Overs : DragEndTs(a, o)
    \/ \E a \in TaskIds, o \in OversJs : DragEndJs(a, o)
    \/ \E a \in TaskIds : \E d \in Destinations(a) : DragEndRbd(a, d)
    \/ \E c \in ColumnIds : handleAddTaskTs(c)
    \/ \E t \in NewTitles : SubmitCreateTs(t)
    \/ CloseCreateTs
    \/ \E c \in ColumnIds, t \in NewTitles : AddTaskJs(c, t)
    \/ \E a \in TaskIds, p \in EditPatches : SaveTask(a, p)
    \/ \E a \in TaskIds : DeleteTask(a)
    \/ \E i \in 1..MaxInflight : ServerHandle(i)
    \/ \E i \in 1..MaxInflight : DeliverOk(i)
    \/ \E i \in 1..MaxInflight, code \in ErrorCodes : DeliverErr(i, code)
    \/ \E c \in HookColumnIds : HookAddTask(c)
    \/ \E c \in HookColumnIds, a \in 1..MaxHookLen : HookDeleteTask(c, a)
    \/ \E a \in 1..MaxHookLen, c \in HookColumnIds, d \in HookColumnIds :
          \E k \in (-1)..(Len(columns[d]) + 1) : HookMoveTask(a, c, d, k)

Spec == Init /\ [][Next]_vars

\* The same board when React runs the mount effect and every request gets its
\* answer: the backend handles what it is sent and the awaited call returns.
LiveSpec ==
    /\ Init /\ [][Next]_vars
    /\ WF_vars(Mount)
    /\ WF_vars(\E i \in 1..MaxInflight : ServerHandle(i))
    /\ WF_vars(\E i \in 1..MaxInflight : DeliverOk(i))

----------------------------------------------------------------------------
(* The filter bar on its own: a board that is loaded and at rest, and a     *)
(* user who types search terms and picks filters.                           *)

\* Every string of at most MaxTermLen characters.
Terms == UNION {[1..n -> FilterChars] : n \in 0..MaxTermLen}

PriorityFilters == {"all", "P1", "P2", "P3"}
StatusFilters == {"all"} \cup ColumnIds

RichTask(id, status, title, description, tags, priority) ==
    [id |-> id, status |-> status, title |-> title, description |-> description,
     tags |-> tags, priority |-> priority]

\* The tasks a board under the filter bar is made of: a first task with any
\* combination of the fields below, and possibly a second one.
FilterFirst ==
    {RichTask(1, st, t, d, g, p) :
        st \in {"todo", "completed"}, t \in {<<"b">>, <<"A", "b">>},
        d \in {NoDescription, <<"a">>}, g \in {<<>>, <<<<"A">>, <<"b", "b">>>>},
        p \in {"P1", "P2"}}
FilterSecond ==
    {RichTask(2, "todo", <<"b">>, NoDescription, <<>>, "P1"),
     RichTask(2, "completed", <<"A">>, <<"b">>, <<<<"a">>>>, "P2")}
FilterBoards ==
    {<<>>} \cup {<<t>> : t \in FilterFirst}
           \cup {<<t, u>> : t \in FilterFirst, u \in FilterSecond}

HookContents == {<<"A", "b">>, <<"b">>}
HookBoards ==
    {[todo |-> <<[id |-> 1, content |-> c], [id |-> 2, content |-> d]>>,
      inprogress |-> <<>>, done |-> <<>>] : c \in HookContents, d \in HookContents}

FilterInit ==
    /\ variant \in {"ts", "hook"}
    /\ mounted = TRUE
    /\ loading = FALSE
    /\ user = (IF variant = "ts" THEN "u1" ELSE "none")
    /\ token = (variant = "ts")
    /\ tasks \in (IF variant = "ts" THEN FilterBoards ELSE {<<>>})
    /\ modal = [open |-> FALSE, status |-> "todo"]
    /\ server = <<>>
    /\ nextId = 1
    /\ inflight = <<>>
    /\ sent = 0
    /\ applied = NoStatus
    /\ settled = NoStatus
    /\ columns \in (IF variant = "hook" THEN HookBoards
                    ELSE {[c \in HookColumnIds |-> <<>>]})
    /\ filters = NoFilters
    /\ chatMessages = <<>>
    /\ projects = <<>>
    /\ last = NoLast

Filtered == [NoLast EXCEPT !.op = "filter"]

\* C19 mutant: a search box that stores the filtered list as the task list.
setSearchTermStoresView(term) ==
    /\ variant \in {"ts", "hook"}
    /\ mounted /\ ~loading
    /\ filters' = [filters EXCEPT !.searchTerm = term]
    /\ tasks' = filteredTasks(tasks, filters')
    /\ last' = Filtered
    /\ UNCHANGED <<projects, chatMessages, variant, mounted, loading, user, token, modal, server, nextId,
                   inflight, sent, applied, settled, columns>>

\* The search box's onChange: setSearchTerm(e.target.value) (part_006 and
\* KanbanBoard).
setSearchTerm(term) ==
    /\ variant \in {"ts", "hook"}
    /\ mounted /\ ~loading
    /\ filters' = [filters EXCEPT !.searchTerm = term]
    /\ last' = Filtered
    /\ UNCHANGED <<projects, chatMessages, variant, mounted, loading, user, token, tasks, modal, server, nextId,
                   inflight, sent, applied, settled, columns>>

\* The priority select's onChange: setPriorityFilter (part_006).
setPriorityFilter(priority) ==
    /\ variant = "ts"
    /\ BoardShown
    /\ filters' = [filters EXCEPT !.priorityFilter = priority]
    /\ last' = Filtered
    /\ UNCHANGED <<projects, chatMessages, variant, mounted, loading, user, token, tasks, modal, server, nextId,
                   inflight, sent, applied, settled, columns>>

\* The status select's onChange: setStatusFilter (part_006).
setStatusFilter(status) ==
    /\ variant = "ts"
    /\ BoardShown
    /\ filters' = [filters EXCEPT !.statusFilter = status]
    /\ last' = Filtered
    /\ UNCHANGED <<projects, chatMessages, variant, mounted, loading, user, token, tasks, modal, server, nextId,
                   inflight, sent, applied, settled, columns>>

FilterNext ==
    \/ \E term \in Terms : setSearchTerm(term)
    \/ \E priority \in PriorityFilters : setPriorityFilter(priority)
    \/ \E status \in StatusFilters : setStatusFilter(status)

FilterSpec == FilterInit /\ [][FilterNext]_vars

----------------------------------------------------------------------------
(* The drag gestures of the local-storage board on their own: a board read *)
(* from local storage, and a user who drags its cards with the mouse or by *)
(* touch.                                                                  *)

\* Every arrangement of the cards 1..n in a list.
RECURSIVE Orders(_)
Orders(S) ==
    IF S = {} THEN {<<>>}
    ELSE UNION {{<<x>> \o o : o \in Orders(S \ {x})} : x \in S}

\* What useLocalStorage('kanban-data', initialColumns) can hand back: the
\* initial empty columns, or a board stored earlier, each card in one column.
StoredBoards ==
    UNION {UNION {
        {[c \in HookColumnIds |->
             LET In(x) == place[x] = c IN SelectSeq(o, In)] : o \in Orders(1..n)}
        : place \in [1..n -> HookColumnIds]} : n \in 0..MaxCards}

HookInit ==
    /\ variant = "hook"
    /\ mounted = TRUE
    /\ loading = FALSE
    /\ user = "none"
    /\ token = FALSE
    /\ tasks = <<>>
    /\ modal = [open |-> FALSE, status |-> "todo"]
    /\ server = <<>>
    /\ nextId = MaxCards + 1
    /\ inflight = <<>>
    /\ sent = 0
    /\ applied = NoStatus
    /\ settled = NoStatus
    /\ columns \in StoredBoards
    /\ filters = NoFilters
    /\ chatMessages = <<>>
    /\ projects = <<>>
    /\ last = NoLast

HookNext ==
    \/ \E a \in 1..MaxCards, c \in HookColumnIds, d \in HookColumnIds :
          \E card \in 0..MaxCards, isAfter \in BOOLEAN : handleDrop(a, c, d, card, isAfter)
    \/ \E a \in 1..MaxCards, c \in HookColumnIds, d \in HookColumnIds :
          handleTouchEnd(a, c, d)

HookSpec == HookInit /\ [][HookNext]_vars

----------------------------------------------------------------------------
(* Projects in part_006 on their own: a loaded board whose tasks refer to   *)
(* projects, and a user who deletes projects and moves tasks.               *)

ProjectIds == {1, 2}
NoProject == 0

\* A task with its project reference (Task.project).
ProjectTask(id, status, title, project) ==
    [id |-> id, status |-> status, title |-> title, project |-> project]

ProjectBoards ==
    {<<ProjectTask(1, "todo", "x", p), ProjectTask(2, "inprogress", "x", q)>> :
        p \in ProjectIds, q \in ProjectIds \cup {NoProject}}

ProjectInit ==
    /\ variant = "ts"
    /\ mounted = TRUE
    /\ loading = FALSE
    /\ user = "u1"
    /\ token = TRUE
    /\ tasks \in ProjectBoards
    /\ modal = [open |-> FALSE, status |-> "todo"]
    /\ server = tasks
    /\ nextId = Len(tasks) + 1
    /\ inflight = <<>>
    /\ sent = 0
    /\ applied = NoStatus
    /\ settled = NoStatus
    /\ columns = [c \in HookColumnIds |-> <<>>]
    /\ filters = NoFilters
    /\ chatMessages = <<>>
    /\ projects = <<1, 2>>
    /\ last = NoLast

\* ProjectModal's delete button (after window.confirm) -> handleDeleteProject:
\* the DELETE is sent; the project list changes when it has succeeded.
DeleteProject(projectId) ==
    /\ variant = "ts"
    /\ BoardShown
    /\ \E i \in DOMAIN projects : projects[i] = projectId
    /\ CanSend
    /\ inflight' = Send(Request("deleteProject", projectId, NoBody, "none", "none",
                                -1, Closure))
    /\ sent' = sent + 1
    /\ last' = NoLast
    /\ UNCHANGED <<projects, chatMessages, filters, variant, mounted, loading, user, token,
                   tasks, modal, server, nextId, applied, settled, columns>>

ProjectNext ==
    \/ \E projectId \in ProjectIds : DeleteProject(projectId)
    \/ \E a \in TaskIds, o \in Overs : DragEndTs(a, o)
    \/ \E i \in 1..MaxInflight : ServerHandle(i)
    \/ \E i \in 1..MaxInflight : DeliverOk(i)
    \/ \E i \in 1..MaxInflight, code \in ErrorCodes : DeliverErr(i, code)

ProjectSpec == ProjectInit /\ [][ProjectNext]_vars

----------------------------------------------------------------------------
(* The chat of part_006 on its own: users who log in, write to the         *)
(* assistant and log out, in one browser session.                          *)

ChatUsers == {"u1", "u2"}
ChatTexts == {"hello"}

ChatInit == Init /\ variant = "ts"

\* part_006 handleSendMessage: setChatMessages(prev => [...prev, newMessage]);
\* nothing is sent to the backend.
handleSendMessage(message) ==
    /\ variant = "ts"
    /\ BoardShown
    /\ Len(chatMessages) < MaxMessages
    /\ LET newMessage == [user_id |-> user, message |-> message]
       IN chatMessages' = Append(chatMessages, newMessage)
    /\ last' = [NoLast EXCEPT !.op = "chat"]
    /\ UNCHANGED <<projects, variant, mounted, loading, user, token, tasks, modal, server, nextId,
                   inflight, sent, applied, settled, columns, filters>>

ChatNext ==
    \/ Mount
    \/ \E u \in ChatUsers : handleLogin(u)
    \/ handleLogout
    \/ \E message \in ChatTexts : handleSendMessage(message)
    \/ \E i \in 1..MaxInflight : ServerHandle(i)
    \/ \E i \in 1..MaxInflight : DeliverOk(i)
    \/ \E i \in 1..MaxInflight, code \in ErrorCodes : DeliverErr(i, code)

ChatSpec == ChatInit /\ [][ChatNext]_vars

----------------------------------------------------------------------------
(* Properties.                                                             *)

\* C1: every task held in the board state is in exactly one of the four column
\* lists, exactly once, and that column's id is the task's status.
C1_OneColumnOnce ==
    \A i \in DOMAIN tasks :
        /\ tasks[i].status \in ColumnIds
        /\ \A c \in ColumnIds :
              Occurrences(tasks, c, tasks[i].id) = (IF c = tasks[i].status THEN 1 ELSE 0)

\* The failure of a move's PUT has just been handled.
MoveFailed == last'.op = "err" /\ last'.kind = "move"

\* C2 as stated: whenever the PUT of a move fails, the board after the failed
\* call is the board before it.
C2_FailedMoveKeepsBoard ==
    [][(last'.op = "drop" \/ MoveFailed) => tasks' = tasks]_vars

\* C2 amended: the drop itself changes nothing locally, and a failed PUT leaves
\* the board as it was, unless it is a 401 in part_006, whose catch block logs
\* out and so empties the board.
C2_FailedMoveKeepsBoardUnless401 ==
    [][/\ (last'.op = "drop" \/ (MoveFailed /\ ~CallsLogout(last', last'.code)))
             => tasks' = tasks
       /\ MoveFailed /\ CallsLogout(last', last'.code)
             => tasks' = <<>> /\ user' = "none"]_vars

\* C2 witness: a move's PUT failed with a status other than 401 while the
\* board held tasks, and the dragged task is still in the column it came from.
C2_Witness ==
    /\ last.op = "err" /\ last.kind = "move" /\ last.code = ServerError
    /\ tasks # <<>>
    /\ StatusOf(tasks, last.id) = last.from
    /\ last.from # last.col

C4_Independent ==
    \A T \in TaskIds : applied[T] # "none" => StatusOf(tasks, T) = applied[T]

\* C5: at most one persistence call per task is in flight at any time.
C5_Serialized ==
    \A i, j \in DOMAIN inflight :
        /\ i # j
        /\ inflight[i].kind \in {"move", "edit", "delete"}
        /\ inflight[j].kind \in {"move", "edit", "delete"}
        => inflight[i].id # inflight[j].id

\* C6: after logout the task list stays empty until the next login; no
\* response that was in flight at logout is applied.
C6_LoggedOutBoardEmpty == user = "none" => tasks = <<>>

\* C7: the task a create sends, the task the backend answers with and the task
\* added to the board all carry the status of the column whose add-task
\* action was raised.
C7_CreateCarriesColumn ==
    /\ \A i \in DOMAIN inflight :
          inflight[i].kind = "create" =>
              /\ inflight[i].status = inflight[i].to
              /\ inflight[i].stage = "ok" => inflight[i].data[1].status = inflight[i].to
    /\ last.op = "ok" /\ last.kind = "create" /\ last.id \in Ids(tasks)
          => \E i \in DOMAIN tasks : tasks[i].id = last.id /\ tasks[i].status = last.col

\* The column list without task id (server-backed boards, local-storage board).
Without(list, id) == LET Keep(t) == t.id # id IN SelectSeq(list, Keep)
WithoutId(list, id) == LET Keep(t) == t # id IN SelectSeq(list, Keep)
Count(list, id) == Cardinality({i \in DOMAIN list : list[i] = id})

\* A move between two different columns has just succeeded, undisturbed by any
\* other request (server-backed boards); useKanban.moveTask has just moved a
\* task it found in the source column.
MoveDone == last'.op = "ok" /\ last'.kind = "move" /\ last'.flag /\ last'.from # last'.col
HookMoveDone == last'.op = "hookMove" /\ last'.flag /\ last'.from # last'.col

\* C8: after a successful moveTask(T, A, B, i) with A # B, T is no longer in
\* A's list, T is in B's list at index i (clamped to the list), T.status = B,
\* and every other task keeps its column and its relative order.
C8_MoveResult ==
    [][/\ MoveDone =>
             /\ Occurrences(tasks', last'.from, last'.id) = 0
             /\ Occurrences(tasks', last'.col, last'.id) = 1
             /\ StatusOf(tasks', last'.id) = last'.col
             /\ \A c \in ColumnIds :
                   Without(getTasksByStatus(tasks', c), last'.id)
                      = Without(getTasksByStatus(tasks, c), last'.id)
             /\ last'.idx >= 0 =>
                   PlaceInColumn(tasks', last'.id)
                      = Min(last'.idx, Len(getTasksByStatus(tasks, last'.col)))
       /\ HookMoveDone =>
             /\ Count(columns'[last'.from], last'.id) = Count(columns[last'.from], last'.id) - 1
             /\ Count(columns'[last'.col], last'.id) = Count(columns[last'.col], last'.id) + 1
             /\ \A c \in HookColumnIds :
                   WithoutId(columns'[c], last'.id) = WithoutId(columns[c], last'.id)
             /\ last'.idx >= 0 =>
                   columns'[last'.col][Min(last'.idx, Len(columns[last'.col])) + 1] = last'.id]_vars

\* C9: a move of a task id that is not in the source column's list changes no
\* column list and sends no request.
C9_AbsentTaskNoop ==
    [][/\ last'.op = "hookMove" /\ ~last'.flag => columns' = columns
       /\ last'.op = "drop" /\ ~last'.flag => tasks' = tasks /\ inflight' = inflight]_vars

\* C11: editTask never changes a task's status: when the response of an edit
\* is applied, every task of the board keeps its status and its place, whatever
\* the patch carried.
C11_EditKeepsStatus ==
    [][last'.op = "ok" /\ last'.kind = "edit" =>
          /\ Len(tasks') = Len(tasks)
          /\ \A i \in DOMAIN tasks : tasks'[i].status = tasks[i].status]_vars

\* C10: a drop on the column the dragged task is already in sends no request:
\* no PUT in flight moves a task to the column it was dragged from.
C10_SameColumnNoCall ==
    \A i \in DOMAIN inflight :
        inflight[i].kind = "move" => inflight[i].from # inflight[i].to

\* C12: on the boards with a session, a 401 answer to any persistence call
\* (load, create, move, edit, delete) tears the session down (stored token
\* removed, user cleared) and the call is not sent again.
C12_UnauthorizedLogsOut ==
    [][last'.op = "err" /\ last'.code = Unauthorized /\ variant \in {"ts", "js"} =>
          /\ user' = "none"
          /\ token' = FALSE
          /\ Len(inflight') = Len(inflight) - 1]_vars

\* The failure of a load's GET has just been handled.
LoadFailed == last'.op = "err" /\ last'.kind = "fetch"

\* C13 as stated: a failed load never clears the board; the board after it is
\* the board before it.
C13_FailedLoadKeepsBoard ==
    [][LoadFailed => tasks' = tasks]_vars

\* C13 amended: a failed load leaves the board as it was, unless the failure
\* is a 401 on a board with a session, whose fetchTasks then logs out and so
\* empties the board.
C13_FailedLoadKeepsBoardUnless401 ==
    [][LoadFailed =>
          IF CallsLogout(last', last'.code)
          THEN tasks' = <<>> /\ user' = "none"
          ELSE tasks' = tasks]_vars

\* C13 witness: a load failed with a status other than 401 while the board
\* held tasks, and the board still holds them.
C13_Witness ==
    /\ last.op = "err" /\ last.kind = "fetch" /\ last.code = ServerError
    /\ tasks # <<>>

\* The backend has just answered the load in flight at place i.
LoadAnswered(i) ==
    /\ i \in DOMAIN inflight /\ Len(inflight') = Len(inflight)
    /\ inflight[i].kind = "fetch" /\ inflight[i].stage = "sent"
    /\ inflight'[i].stage = "ok"

\* C14: once deleteTask(T) has succeeded T is in no column of the board, no
\* load answered from then on returns T, and the board such a load leaves
\* does not hold T; useKanban.deleteTask leaves no entry of T in the column it
\* was called for and no entry at all when T was in that column only.
C14_DeletedStaysGone ==
    [][/\ last'.op = "ok" /\ last'.kind = "delete" => last'.id \notin Ids(tasks')
       /\ \A T \in TaskIds : settled[T] = "deleted" =>
             /\ \A i \in 1..MaxInflight : LoadAnswered(i) => T \notin Ids(inflight'[i].data)
             /\ T \notin Ids(ServerGet)
       /\ last'.op = "hookDelete" =>
             /\ Count(columns'[last'.col], last'.id) = 0
             /\ \A c \in HookColumnIds \ {last'.col} : columns'[c] = columns[c]
             /\ (\A c \in HookColumnIds \ {last'.col} : Count(columns[c], last'.id) = 0)
                   => \A c \in HookColumnIds : Count(columns'[c], last'.id) = 0]_vars

\* C14 witness: task 1 was deleted and a load answered afterwards has just put
\* the board on screen without it.
C14_Witness ==
    /\ settled[1] = "deleted"
    /\ last.op = "ok" /\ last.kind = "fetch"
    /\ tasks # <<>>
    /\ 1 \notin Ids(tasks)

\* A request of the given kind has just been sent.
JustSent(kind) ==
    /\ Len(inflight') = Len(inflight) + 1
    /\ inflight'[Len(inflight')].kind = kind

\* C15: sending the DELETE changes nothing locally, and when it fails (with
\* any status) the board is what it was: the task is still in its column at
\* its place.
C15_FailedDeleteKeepsBoard ==
    [][JustSent("delete") \/ (last'.op = "err" /\ last'.kind = "delete")
          => tasks' = tasks]_vars

\* C15 witness: a DELETE has just failed and the task is still on the board in
\* the column it was in.
C15_Witness ==
    /\ last.op = "err" /\ last.kind = "delete"
    /\ last.id \in Ids(tasks)
    /\ StatusOf(tasks, last.id) = last.from

\* C16: sending an edit's PUT changes nothing locally, and when it fails (with
\* any status) every field of every task is what it was.
C16_FailedEditKeepsTask ==
    [][JustSent("edit") \/ (last'.op = "err" /\ last'.kind = "edit")
          => tasks' = tasks]_vars

\* C16 witness: an edit's PUT has just failed and the task still has the title
\* and the status it had before the edit.
C16_Witness ==
    /\ last.op = "err" /\ last.kind = "edit"
    /\ \E i \in DOMAIN tasks :
          tasks[i].id = last.id /\ tasks[i].title = "x" /\ tasks[i].status = last.from

\* C17: when the POST of a create fails, the caller of createTask (the
\* column's add-task handler) gets an error back, not a success.
C17_CreateFailureSignalled ==
    [][last'.op = "err" /\ last'.kind = "create" => last'.seen = "rejected"]_vars

\* C18: with an empty search term and both filters on "all" the view is the
\* whole board: every task passes, each column lists the tasks of its status
\* in board order, and the local-storage board shows every column as it is.
C18_NoFilterShowsAll ==
    filters = NoFilters =>
        /\ filteredTasks(tasks, filters) = tasks
        /\ \A c \in ColumnIds : ColumnTasks(tasks, filters, c) = getTasksByStatus(tasks, c)
        /\ filteredColumns(columns, filters.searchTerm) = columns

\* C18 witness: after some filtering the filters are back to empty and "all",
\* and a column shows its two tasks in board order.
C18_Witness ==
    /\ last.op = "filter" /\ filters = NoFilters
    /\ \E c \in ColumnIds : Len(ColumnTasks(tasks, filters, c)) = 2
                            /\ ColumnTasks(tasks, filters, c) = tasks

\* C19: filtering never changes what is stored: whatever the search term and
\* the filters become, the task list (and the local-storage board's columns)
\* after the step are those before it.
C19_FilterKeepsStorage ==
    [][filters' # filters \/ last'.op = "filter"
          => tasks' = tasks /\ columns' = columns /\ server' = server]_vars

\* C19 witness: the filters match nothing, every column of the view is empty,
\* and the board still holds its tasks.
C19_Witness ==
    /\ last.op = "filter"
    /\ Len(tasks) = 2
    /\ \A c \in ColumnIds : ColumnTasks(tasks, filters, c) = <<>>

\* Two characters that differ at most in case.
SameLetter(a, b) == a = b \/ {a, b} = {"a", "A"}

\* term occurs in str, case not counted.
SubstringCI(term, str) ==
    \E k \in 0..(Len(str) - Len(term)) :
        \A j \in 1..Len(term) : SameLetter(str[k + j], term[j])

\* C20: a task is in the filtered view if and only if the search term is a
\* case-insensitive substring of its title, of its description or of one of
\* its tags, and the priority filter is "all" or its priority, and the status
\* filter is "all" or its status.
C20_ViewMembership ==
    \A i \in DOMAIN tasks :
        tasks[i].id \in Ids(filteredTasks(tasks, filters))
        <=> /\ \/ SubstringCI(filters.searchTerm, tasks[i].title)
               \/ /\ tasks[i].description # NoDescription
                  /\ SubstringCI(filters.searchTerm, tasks[i].description)
               \/ \E g \in DOMAIN tasks[i].tags :
                     SubstringCI(filters.searchTerm, tasks[i].tags[g])
            /\ filters.priorityFilter \in {"all", tasks[i].priority}
            /\ filters.statusFilter \in {"all", tasks[i].status}

\* C20 witness: the term "a" is typed and task 1 is in the view through its
\* tag "A" alone: its title is "b" and it has no description.
C20_Witness ==
    /\ last.op = "filter" /\ filters.searchTerm = <<"a">>
    /\ \E i \in DOMAIN tasks :
          /\ tasks[i].title = <<"b">> /\ tasks[i].description = NoDescription
          /\ tasks[i].tags # <<>>
          /\ tasks[i].id \in Ids(filteredTasks(tasks, filters))

\* The columns some drag gesture on the board can send task id to: the target
\* of a drop the handler of the running board turns into a move.
Reachable(id) ==
    CASE variant = "ts"  -> {o.col : o \in {p \in Overs : TsSendsMove(id, p)}}
      [] variant = "js"  -> {targetColumn(o) : o \in {p \in OversJs : JsSendsMove(id, p)}}
      [] variant = "rbd" -> {d.col : d \in {e \in Destinations(id) : RbdSendsMove(id, e)}}
      [] OTHER           -> {}

\* C21: no column is terminal: whenever the board is shown, for every task on
\* it and every column other than its own there is a drag gesture that the
\* board's drop handler turns into a move of the task to that column
\* (completed back to todo included).
C21_NoTerminalColumn ==
    BoardShown /\ variant \in {"ts", "js", "rbd"} =>
        \A i \in DOMAIN tasks :
            tasks[i].status \in ColumnIds =>
                ColumnIds \ {tasks[i].status} \subseteq Reachable(tasks[i].id)

\* C22: chat history is per user: the chat list shown to the user who is
\* logged in holds no message of another user, also after that other user
\* logged out and this one logged in in the same browser session.
C22_ChatPerUser ==
    user # "none" => \A i \in DOMAIN chatMessages : chatMessages[i].user_id = user

\* The request that has just been sent.
Newest == inflight'[Len(inflight')]

\* C23: every mutating operation applies its change to the local board
\* before it issues the remote call: as soon as the request of a create, move,
\* edit or delete is sent the board shows the change (the new task, the new
\* status, the patched fields, the task gone).
C23_AppliedBeforeCall ==
    [][/\ JustSent("move") => StatusOf(tasks', Newest.id) = Newest.to
       /\ JustSent("create") => Len(tasks') = Len(tasks) + 1
       /\ JustSent("edit") =>
             tasks' = handleSaveTask(tasks, Newest.id,
                                     [status |-> Newest.status, title |-> Newest.title])
       /\ JustSent("delete") => Newest.id \notin Ids(tasks')]_vars

\* An index kept within [0, n].
Clamp(i, n) == IF i < 0 THEN 0 ELSE IF i > n THEN n ELSE i

\* The list without the first entry of id; the list with x put at 0-based
\* place k.
RemoveFirst(list, id) ==
    IF Count(list, id) = 0 THEN list
    ELSE LET k == CHOOSE i \in DOMAIN list :
                      list[i] = id /\ \A j \in 1..(i - 1) : list[j] # id
         IN SubSeq(list, 1, k - 1) \o SubSeq(list, k + 1, Len(list))
InsertAt(list, k, x) == SubSeq(list, 1, k) \o <<x>> \o SubSeq(list, k + 1, Len(list))

\* The destination list a drop inserts into: the destination column's list,
\* without the dragged task when it is dragged within its column.
DropInto ==
    IF last'.from = last'.col THEN RemoveFirst(columns[last'.col], last'.id)
    ELSE columns[last'.col]

\* C24: the insertion index of a move is clamped to [0, length of the
\* destination list]: whatever index the drop handler computed (-1 for a card
\* it did not find, length + 1 for the lower half of the last card of the
\* task's own column), the task is inserted at that index brought into range.
C24_IndexClamped ==
    [][last'.op = "hookDrop" =>
          columns'[last'.col]
             = InsertAt(DropInto, Clamp(last'.idx, Len(DropInto)), last'.id)]_vars

\* C25: a move persists only the status and touches nothing else: the PUT of
\* a move carries the new status and no other field, and when its response is
\* applied the moved task differs from what it was in its status only, while
\* every other task of the board is what it was.
C25_MoveOnlyStatus ==
    [][/\ JustSent("move") => Newest.status = Newest.to /\ Newest.title = "none"
       /\ last'.op = "ok" /\ last'.kind = "move" =>
             /\ Len(tasks') = Len(tasks)
             /\ \A i \in DOMAIN tasks :
                   tasks'[i] = IF tasks[i].id = last'.id
                               THEN [tasks[i] EXCEPT !.status = last'.col]
                               ELSE tasks[i]]_vars

\* C26: when the PUT of a move fails, whatever the failure, the caller of
\* moveTask (the drop handler's caller) gets an error back for that call.
C26_MoveFailureReported ==
    [][MoveFailed => last'.seen = "rejected"]_vars

\* The backend has just handled the DELETE of a project.
ProjectDeleteHandled ==
    \E i \in DOMAIN inflight :
        /\ Len(inflight') = Len(inflight)
        /\ inflight[i].kind = "deleteProject"
        /\ inflight[i].stage = "sent" /\ inflight'[i].stage = "ok"

\* C27: deleting a project neither deletes nor modifies any task: sending the
\* DELETE, the backend handling it and its response (success or failure)
\* being applied each leave the local task list as it was, and the backend's
\* task collection too; tasks of the deleted project keep their reference.
C27_ProjectDeleteKeepsTasks ==
    [][/\ JustSent("deleteProject") => tasks' = tasks
       /\ ProjectDeleteHandled => server' = server /\ tasks' = tasks
       /\ last'.kind = "deleteProject" /\ last'.op \in {"ok", "err"} => tasks' = tasks]_vars

\* C27 witness: the delete of a project has just succeeded, the project is no
\* longer listed, and a task of the board still refers to it.
C27_Witness ==
    /\ last.op = "ok" /\ last.kind = "deleteProject"
    /\ \A i \in DOMAIN projects : projects[i] # last.id
    /\ \E i \in DOMAIN tasks : tasks[i].project = last.id

\* How often task id is on the local-storage board, over all its columns.
OnBoard(cols, id) ==
    Count(cols["todo"], id) + Count(cols["inprogress"], id) + Count(cols["done"], id)

\* C28: on the local-storage board a move of a task that is in its source
\* column loses no task and duplicates none (every id is on the board as
\* often as before) and leaves the other tasks of every column in the order
\* they had, for drops within a column and across columns, by mouse or by
\* touch, whatever index the handler computed.
C28_MoveKeepsTasks ==
    [][last'.op \in {"hookDrop", "hookTouch"} =>
          /\ \A id \in 1..MaxCards : OnBoard(columns', id) = OnBoard(columns, id)
          /\ \A c \in HookColumnIds :
                WithoutId(columns'[c], last'.id) = WithoutId(columns[c], last'.id)]_vars

\* C28 witness: a card has just been dropped, with a computed index of -1,
\* into another column that now holds all three cards.
C28_Witness ==
    /\ last.op = "hookDrop" /\ last.idx = -1 /\ last.from # last.col
    /\ Len(columns[last.col]) = MaxCards
    /\ \A id \in 1..MaxCards : OnBoard(columns, id) = 1

\* A card has just been dropped on another card X of its own column.
DroppedOnCardOfOwnColumn ==
    /\ last'.op = "hookDrop" /\ last'.from = last'.col
    /\ last'.card # NoCard /\ last'.card # last'.id
    /\ Count(columns[last'.col], last'.card) = 1

\* C29: on the local-storage board, a drop of T on card X of T's own column
\* puts T right after X for a drop on X's lower half and right before X for a
\* drop on its upper half, whether T was above or below X.
C29_DropNextToCard ==
    [][DroppedOnCardOfOwnColumn =>
          findIndex(columns'[last'.col], last'.id)
             = findIndex(columns'[last'.col], last'.card)
                  + (IF last'.after THEN 1 ELSE -1)]_vars

\* C30: after a start-up that loads the tasks (with a stored session; always
\* in part_004) the loading flag becomes false once the load has completed,
\* however it ended, and stays false: the loading screen is left for good.
C30_LoadingEnds ==
    /\ (~mounted /\ (token \/ variant = "rbd")) ~> ~loading
    /\ [][~loading => ~loading']_vars

\* C30 witness: App.js started with a stored session, its load was answered
\* with 401, and the loading screen is gone.
C30_Witness ==
    /\ variant = "js" /\ sent = 1
    /\ last.op = "err" /\ last.kind = "fetch" /\ last.code = Unauthorized
    /\ ~loading

====
